---- MODULE Spec2Model ----
(***************************************************************************)
(* bituin, the MicroScript package manager: a model of the command         *)
(* dispatcher, the project initializer, the file adder, the runner and     *)
(* the config reader/writer, for the Go implementation (src/main.go) and   *)
(* the JavaScript implementation (bituin.js) the repository holds.         *)
(*                                                                         *)
(* Text is a sequence of one-character strings.  Fixed boilerplate that    *)
(* the program only writes and never parses is one opaque element.         *)
(* A path is the sequence of its components, relative to the working       *)
(* directory; <<>> is the working directory itself.                        *)
(***************************************************************************)
EXTENDS Integers, Sequences, FiniteSets, TLC

VARIABLES
    fs,        \* the filesystem: path -> [kind, data]; absent paths are not in its domain
    impl,      \* which implementation ran the last command: "go" | "js" | "none"
    argv,      \* the arguments of the last command (os.Args[1:])
    exitCode,  \* its exit status
    stdout,    \* the kinds of message it printed, in order
    statted,   \* the entry path whose existence `run` checked (<<"-">> when none)
    execd,     \* the argument list `run` invoked the interpreter with (<<>> when none)
    child,     \* the status the interpreter ended with (NotStarted when not started)
    before,    \* the filesystem the last command started from
    created,   \* per project name, how many `new` of it have succeeded
    steps,     \* commands and edits so far
    pcs,       \* racing `new`: each process's position
    cfgText,   \* config functions: the input config text
    target,    \* config functions: the filename given to `run`
    rewritten, \* config functions: the text after the rewrite
    readBack,  \* config functions: the result of reading main_file back
    stage      \* config functions: "input" | "go" | "js" | "goread" | "jsread"

vars == <<fs, impl, argv, exitCode, stdout, statted, execd, child, before, created,
          steps, pcs,
          cfgText, target, rewritten, readBack, stage>>

(***************************************************************************)
(* Text                                                                    *)
(***************************************************************************)
Letters == {"a","b","c","d","e","f","g","h","i","j","k","l","m",
            "n","o","p","q","r","s","t","u","v","w","x","y","z"}

Digits == {"0","1","2","3","4","5","6","7","8","9"}

DigitVal(c) ==
    CASE c = "0" -> 0 [] c = "1" -> 1 [] c = "2" -> 2 [] c = "3" -> 3
      [] c = "4" -> 4 [] c = "5" -> 5 [] c = "6" -> 6 [] c = "7" -> 7
      [] c = "8" -> 8 [] c = "9" -> 9

\* \s of the pattern
Whitespace == {" ", "\n", "\t", "\r"}

Sub(s, a, b) == IF a > b THEN <<>> ELSE SubSeq(s, a, b)

\* does text s hold lit at position i
HasAt(s, i, lit) ==
    /\ i >= 1
    /\ i + Len(lit) - 1 <= Len(s)
    /\ \A k \in 1..Len(lit) : s[i + k - 1] = lit[k]

\* the first position >= i of s that holds character c (Len(s)+1 when none)
RECURSIVE IndexFrom(_, _, _)
IndexFrom(s, c, i) ==
    IF i > Len(s) \/ s[i] = c THEN i ELSE IndexFrom(s, c, i + 1)

\* the value of a variable that holds no text or path yet
Idle == <<"-">>

\* the interpreter's status when run did not start it
NotStarted == -1

\* the status of an interpreter that could not be executed
CannotExecute == 126

MAIN_FILE_KEY == <<"m","a","i","n","_","f","i","l","e">>

SRC == <<"s","r","c">>

MAIN_NAME == <<"m","a","i","n",".","m","i","c","r","o","s","c","r","i","p","t">>

BITUIN_TOML == <<"b","i","t","u","i","n",".","t","o","m","l">>

MICROSCRIPT_EXE == <<"m","i","c","r","o","s","c","r","i","p","t",".","e","x","e">>

MICROSCRIPT_PREVIEW_EXE ==
    <<"m","i","c","r","o","s","c","r","i","p","t","-","p","r","e","v","i","e","w",".","e","x","e">>

PREVIEW_FLAG == <<"-","-","p","r","e","v","i","e","w">>

\* the starter source file written by new/init
MAIN_MICROSCRIPT == <<"function main() { console.write(\"Hello, World!\"); } main();">>

\* the boilerplate written by add
ADD_TEMPLATE == <<"function main() { // Add your code here } main();">>

(***************************************************************************)
(* The pattern  main_file\s*=\s*"([^"]+)"                                  *)
(***************************************************************************)
\* the first position >= i of s that holds no whitespace (Len(s)+1 when none)
RECURSIVE SkipWs(_, _)
SkipWs(s, i) ==
    IF i > Len(s) \/ s[i] \notin Whitespace THEN i ELSE SkipWs(s, i + 1)

NoMatch == [ok |-> FALSE, start |-> 0, end |-> 0, g1 |-> <<>>]

\* the match of the pattern that starts at position i of s, if there is one
MatchAt(s, i) ==
    IF ~HasAt(s, i, MAIN_FILE_KEY) THEN NoMatch
    ELSE LET e == SkipWs(s, i + Len(MAIN_FILE_KEY)) IN
         IF ~HasAt(s, e, <<"=">>) THEN NoMatch
         ELSE LET q == SkipWs(s, e + 1) IN
              IF ~HasAt(s, q, <<"\"">>) THEN NoMatch
              ELSE LET c == IndexFrom(s, "\"", q + 1) IN
                   IF c > Len(s) \/ c = q + 1 THEN NoMatch
                   ELSE [ok |-> TRUE, start |-> i, end |-> c,
                         g1 |-> Sub(s, q + 1, c - 1)]

\* the leftmost match at or after position from
RECURSIVE FindFrom(_, _)
FindFrom(s, from) ==
    IF from > Len(s) THEN NoMatch
    ELSE IF s[from] # MAIN_FILE_KEY[1] THEN FindFrom(s, from + 1)
    ELSE LET m == MatchAt(s, from) IN
         IF m.ok THEN m ELSE FindFrom(s, from + 1)

\* fmt.Sprintf(`main_file = "src/%s"`, mainFileName)
ReplacementFor(name) ==
    MAIN_FILE_KEY \o <<" ","="," ","\"">> \o SRC \o <<"/">> \o name \o <<"\"">>

(***************************************************************************)
(* Go: regexp.ReplaceAllString and FindStringSubmatch                      *)
(***************************************************************************)
IsNameChar(c) == c \in Letters \/ c \in Digits \/ c = "_"

\* the decimal value of a run of digits
RECURSIVE NumOf(_)
NumOf(ds) ==
    IF ds = <<>> THEN 0
    ELSE 10 * NumOf(Sub(ds, 1, Len(ds) - 1)) + DigitVal(ds[Len(ds)])

\* regexp's extract: the variable name that starts at position i of the
\* template (the position after a "$"), its number (-1 when it is no
\* number) and the position after it
RECURSIVE NameEnd(_, _)
NameEnd(tpl, j) ==
    IF j > Len(tpl) \/ ~IsNameChar(tpl[j]) THEN j ELSE NameEnd(tpl, j + 1)

GoExtract(tpl, i) ==
    LET brace == i <= Len(tpl) /\ tpl[i] = "{"
        st    == IF brace THEN i + 1 ELSE i
        stop  == NameEnd(tpl, st)
        name  == Sub(tpl, st, stop - 1)
        isNum == /\ \A k \in 1..Len(name) : name[k] \in Digits
                 /\ ~(name[1] = "0" /\ Len(name) > 1)
    IN  IF i > Len(tpl) \/ stop = st
          THEN [ok |-> FALSE, num |-> -1, next |-> i]
        ELSE IF brace /\ (stop > Len(tpl) \/ tpl[stop] # "}")
          THEN [ok |-> FALSE, num |-> -1, next |-> i]
        ELSE [ok |-> TRUE,
              num |-> IF isNum THEN NumOf(name) ELSE -1,
              next |-> IF brace THEN stop + 1 ELSE stop]

\* the submatch a numbered or named variable stands for: the pattern has one
\* group and no named group
GoGroup(num, s, m) ==
    IF num = 0 THEN Sub(s, m.start, m.end)
    ELSE IF num = 1 THEN m.g1
    ELSE <<>>

\* regexp's expand, from position i of the template
RECURSIVE GoExpand(_, _, _, _)
GoExpand(tpl, i, s, m) ==
    IF i > Len(tpl) THEN <<>>
    ELSE IF tpl[i] # "$" THEN <<tpl[i]>> \o GoExpand(tpl, i + 1, s, m)
    ELSE IF i + 1 <= Len(tpl) /\ tpl[i + 1] = "$"
      THEN <<"$">> \o GoExpand(tpl, i + 2, s, m)
    ELSE LET ex == GoExtract(tpl, i + 1) IN
         IF ~ex.ok THEN <<"$">> \o GoExpand(tpl, i + 1, s, m)
         ELSE GoGroup(ex.num, s, m) \o GoExpand(tpl, ex.next, s, m)

\* the replacement of every match at or after position from
RECURSIVE GoReplaceFrom(_, _, _)
GoReplaceFrom(s, from, tpl) ==
    LET m == FindFrom(s, from) IN
    IF ~m.ok THEN Sub(s, from, Len(s))
    ELSE Sub(s, from, m.start - 1) \o GoExpand(tpl, 1, s, m)
           \o GoReplaceFrom(s, m.end + 1, tpl)

\* re.ReplaceAllString(src, repl)
GoReplaceAllString(s, tpl) == GoReplaceFrom(s, 1, tpl)

\* the config text `run <name>` writes back (Go)
GoUpdatedConfig(cfg, name) == GoReplaceAllString(cfg, ReplacementFor(name))

\* re.FindStringSubmatch(src): matches[1] when there is a match
ReadMainFile(cfg) ==
    LET m == FindFrom(cfg, 1) IN [found |-> m.ok, path |-> m.g1]

(***************************************************************************)
(* JavaScript: String.prototype.replace with a pattern without the g flag  *)
(***************************************************************************)
\* GetSubstitution, from position i of the replacement text
RECURSIVE JsSubstitution(_, _, _, _)
JsSubstitution(tpl, i, s, m) ==
    IF i > Len(tpl) THEN <<>>
    ELSE IF tpl[i] # "$" \/ i = Len(tpl)
      THEN <<tpl[i]>> \o JsSubstitution(tpl, i + 1, s, m)
    ELSE LET c  == tpl[i + 1]
             c2 == IF i + 2 <= Len(tpl) THEN tpl[i + 2] ELSE ""
         IN
         IF c = "$" THEN <<"$">> \o JsSubstitution(tpl, i + 2, s, m)
         ELSE IF c = "&"
           THEN Sub(s, m.start, m.end) \o JsSubstitution(tpl, i + 2, s, m)
         ELSE IF c = "`"
           THEN Sub(s, 1, m.start - 1) \o JsSubstitution(tpl, i + 2, s, m)
         ELSE IF c = "'"
           THEN Sub(s, m.end + 1, Len(s)) \o JsSubstitution(tpl, i + 2, s, m)
         ELSE IF c \in Digits /\ c2 \in Digits /\ 10 * DigitVal(c) + DigitVal(c2) = 1
           THEN m.g1 \o JsSubstitution(tpl, i + 3, s, m)
         ELSE IF c = "1"
           THEN m.g1 \o JsSubstitution(tpl, i + 2, s, m)
         ELSE <<"$">> \o JsSubstitution(tpl, i + 1, s, m)

\* configContent.replace(/main_file\s*=\s*"([^"]+)"/, repl)
JsReplace(s, tpl) ==
    LET m == FindFrom(s, 1) IN
    IF ~m.ok THEN s
    ELSE Sub(s, 1, m.start - 1) \o JsSubstitution(tpl, 1, s, m)
           \o Sub(s, m.end + 1, Len(s))

\* the config text `run <name>` writes back (JavaScript)
JsUpdatedConfig(cfg, name) == JsReplace(cfg, ReplacementFor(name))
(***************************************************************************)
(* Paths: filepath.Join and path.join clean what they join                 *)
(***************************************************************************)
Dot == <<".">>

DotDot == <<".", ".">>

\* the components of a path text, from position i on; empty ones are dropped
RECURSIVE SplitFrom(_, _)
SplitFrom(s, i) ==
    IF i > Len(s) THEN <<>>
    ELSE LET stop == IndexFrom(s, "/", i) IN
         IF stop = i THEN SplitFrom(s, i + 1)
         ELSE <<Sub(s, i, stop - 1)>> \o SplitFrom(s, stop + 1)

\* Clean: "." goes, ".." takes the component before it with it
RECURSIVE Clean(_, _)
Clean(done, rest) ==
    IF rest = <<>> THEN done
    ELSE IF Head(rest) = Dot THEN Clean(done, Tail(rest))
    ELSE IF Head(rest) = DotDot /\ done # <<>> /\ done[Len(done)] # DotDot
      THEN Clean(Sub(done, 1, Len(done) - 1), Tail(rest))
    ELSE Clean(Append(done, Head(rest)), Tail(rest))

\* filepath.Join(dir, text): dir is a clean path, text any path text
Join(dir, text) == Clean(<<>>, dir \o SplitFrom(text, 1))

Parent(path) == Sub(path, 1, Len(path) - 1)

(***************************************************************************)
(* The filesystem                                                          *)
(***************************************************************************)
DirEntry == [kind |-> "dir", data |-> <<>>]

FileEntry(data) == [kind |-> "file", data |-> data]

\* the working directory and its parent are directories that always exist
IsDir(f, path) ==
    \/ path = <<>>
    \/ path = <<DotDot>>
    \/ path \in DOMAIN f /\ f[path].kind = "dir"

IsFile(f, path) == path \in DOMAIN f /\ f[path].kind = "file"

\* stat(2): "ok", or why not
Stat(f, path) ==
    IF \E k \in 1..(Len(path) - 1) : IsFile(f, Sub(path, 1, k)) THEN "ENOTDIR"
    ELSE IF IsDir(f, path) \/ IsFile(f, path) THEN "ok"
    ELSE "ENOENT"

\* os.IsNotExist(err) after os.Stat
GoNotExist(f, path) == Stat(f, path) = "ENOENT"

\* fs.existsSync
JsExistsSync(f, path) == Stat(f, path) = "ok"

\* os.Mkdir in the place of os.MkdirAll: a directory that is already there
\* is an error
MkdirAll_Exclusive(f, path) ==
    IF Stat(f, path) # "ENOENT" THEN [ok |-> FALSE, fs |-> f]
    ELSE LET missing == {Sub(path, 1, k) : k \in 1..Len(path)} \ DOMAIN f
             new     == {d \in missing : ~IsDir(f, d)}
         IN [ok |-> TRUE, fs |-> [d \in new |-> DirEntry] @@ f]

\* os.MkdirAll, fs.mkdirSync with recursive: every missing directory of the
\* path is made; a file in the way is an error and nothing is made
MkdirAll(f, path) ==
    IF \E k \in 1..Len(path) : IsFile(f, Sub(path, 1, k))
      THEN [ok |-> FALSE, fs |-> f]
    ELSE LET made == {Sub(path, 1, k) : k \in 1..Len(path)} \ DOMAIN f
             new  == {d \in made : ~IsDir(f, d)}
         IN [ok |-> TRUE, fs |-> [d \in new |-> DirEntry] @@ f]

\* os.WriteFile, fs.writeFileSync: create or truncate; the directory must
\* exist and the path must not be a directory
WriteFile(f, path, data) ==
    IF path = <<>> \/ ~IsDir(f, Parent(path)) \/ IsDir(f, path)
      THEN [ok |-> FALSE, fs |-> f]
    ELSE [ok |-> TRUE, fs |-> (path :> FileEntry(data)) @@ f]

\* os.ReadFile, fs.readFileSync
ReadFile(f, path) ==
    IF IsFile(f, path) THEN [ok |-> TRUE, data |-> f[path].data]
    ELSE [ok |-> FALSE, data |-> <<>>]

(***************************************************************************)
(* Go: templates and the project initializer                               *)
(***************************************************************************)
\* what a command leaves: the filesystem, the exit status, the messages, the
\* entry path run checked and the interpreter invocation
Outcome(f, code, msgs) ==
    [fs |-> f, exit |-> code, out |-> msgs, statted |-> Idle, execd |-> <<>>,
     child |-> NotStarted]

\* [package]\nname = "<projectName>"\nmain_file = "src/main.microscript"
getBituinToml(projectName) ==
    <<"[","p","a","c","k","a","g","e","]","\n">>
      \o <<"n","a","m","e"," ","="," ","\"">> \o projectName \o <<"\"","\n">>
      \o MAIN_FILE_KEY \o <<" ","="," ","\"">> \o SRC \o <<"/">> \o MAIN_NAME \o <<"\"">>

createDirectoryStructure(f, projectPath) ==
    LET d1 == MkdirAll(f, projectPath) IN
    IF ~d1.ok THEN d1 ELSE MkdirAll(d1.fs, Join(projectPath, SRC))

createMainMicroscript(f, projectPath) ==
    WriteFile(f, Join(Join(projectPath, SRC), MAIN_NAME), MAIN_MICROSCRIPT)

createBituinConfig(f, projectPath, projectName) ==
    WriteFile(f, Join(projectPath, BITUIN_TOML), getBituinToml(projectName))

\* the pre-check of new left out
GoTargetTaken_Never(f, projectPath) == FALSE

\* the pre-check of new: the target path must not exist
GoTargetTaken(f, projectPath) == ~GoNotExist(f, projectPath)

createProject(f, projectName, isNew) ==
    LET projectPath == IF isNew THEN Join(<<>>, projectName) ELSE <<>> IN
    IF isNew /\ GoTargetTaken(f, projectPath)
      THEN Outcome(f, 1, <<"Error: Directory already exists">>)
    ELSE LET d == createDirectoryStructure(f, projectPath) IN
    IF ~d.ok THEN Outcome(d.fs, 1, <<"Error creating directory structure">>)
    ELSE LET m == createMainMicroscript(d.fs, projectPath) IN
    IF ~m.ok THEN Outcome(m.fs, 1, <<"Error creating main.microscript">>)
    ELSE LET c == createBituinConfig(m.fs, projectPath, projectName) IN
    IF ~c.ok THEN Outcome(c.fs, 1, <<"Error creating bituin.toml">>)
    ELSE Outcome(c.fs, 0, <<"created successfully">>)

(***************************************************************************)
(* Go: the file adder                                                      *)
(***************************************************************************)
\* add without the check for bituin.toml
addMicroscriptFile_Unchecked(f, filename) ==
    LET d == MkdirAll(f, Join(<<>>, SRC)) IN
    IF ~d.ok THEN Outcome(d.fs, 1, <<"Error creating src directory">>)
    ELSE LET w == WriteFile(d.fs, Join(Join(<<>>, SRC), filename), ADD_TEMPLATE) IN
    IF ~w.ok THEN Outcome(w.fs, 1, <<"Error creating MicroScript file">>)
    ELSE Outcome(w.fs, 0, <<"Create file">>)

addMicroscriptFile(f, filename) ==
    IF GoNotExist(f, Join(<<>>, BITUIN_TOML))
      THEN Outcome(f, 1, <<"Error: Not in a Bituin project directory">>)
    ELSE LET d == MkdirAll(f, Join(<<>>, SRC)) IN
    IF ~d.ok THEN Outcome(d.fs, 1, <<"Error creating src directory">>)
    ELSE LET w == WriteFile(d.fs, Join(Join(<<>>, SRC), filename), ADD_TEMPLATE) IN
    IF ~w.ok THEN Outcome(w.fs, 1, <<"Error creating MicroScript file">>)
    ELSE Outcome(w.fs, 0, <<"Create file">>)

(***************************************************************************)
(* Go: the runner                                                          *)
(***************************************************************************)
\* the argument scan of run: args[1] is the command itself
GoIsPreview(args) == \E i \in 2..Len(args) : args[i] = PREVIEW_FLAG

\* the last argument that is not the preview flag, "" when there is none
GoTargetFile(args) ==
    LET named == {i \in 2..Len(args) : args[i] # PREVIEW_FLAG} IN
    IF named = {} THEN <<>> ELSE args[CHOOSE i \in named : \A j \in named : j <= i]

\* no default entry: a config without main_file resolves to the working
\* directory
GoConfiguredMain_NoDefault(configContent) ==
    Join(<<>>, ReadMainFile(configContent).path)

\* the entry path run resolves when no target is given
GoConfiguredMain(configContent) ==
    LET matches == ReadMainFile(configContent) IN
    IF ~matches.found THEN Join(Join(<<>>, SRC), MAIN_NAME)
    ELSE Join(<<>>, matches.path)

\* what run writes to bituin.toml when a target is given
GoWriteConfig(f, path, configContent, mainFileName) ==
    WriteFile(f, path, GoUpdatedConfig(configContent, mainFileName))

\* the status run ends with once the interpreter has ended with this status
GoExitAfterExec(status) == IF status # 0 THEN 1 ELSE 0

\* from the entry-file check on; f is the filesystem after the config step
GoExecute(f, mainFile, isPreview, rc) ==
    LET executableName == IF isPreview THEN MICROSCRIPT_PREVIEW_EXE ELSE MICROSCRIPT_EXE
        microscriptExe == Join(Join(<<>>, DotDot), executableName)
        banner         == IF isPreview THEN "Running in preview mode" ELSE "Running"
        status         == IF IsFile(f, microscriptExe) THEN rc ELSE CannotExecute
        invoked        == <<microscriptExe, <<"run">>, mainFile>>
    IN
    IF GoNotExist(f, mainFile)
      THEN [Outcome(f, 1, <<"Error: Main file not found">>) EXCEPT !.statted = mainFile]
    ELSE IF GoNotExist(f, microscriptExe)
      THEN [Outcome(f, 1, <<banner, "Error: interpreter not found">>)
              EXCEPT !.statted = mainFile]
    ELSE [Outcome(f, GoExitAfterExec(status),
                  IF status # 0 THEN <<banner, "Error: execution failed">>
                  ELSE <<banner, "Success">>)
              EXCEPT !.statted = mainFile, !.execd = invoked, !.child = status]

runProject(f, args, rc) ==
    LET isPreview      == GoIsPreview(args)
        targetFile     == GoTargetFile(args)
        bituinTomlPath == Join(<<>>, BITUIN_TOML)
        config         == ReadFile(f, bituinTomlPath)
    IN
    IF GoNotExist(f, bituinTomlPath)
      THEN Outcome(f, 1, <<"Error: bituin.toml not found">>)
    ELSE IF ~config.ok
      THEN Outcome(f, 1, <<"Error reading bituin.toml">>)
    ELSE IF targetFile # <<>>
      THEN LET w == GoWriteConfig(f, bituinTomlPath, config.data, targetFile) IN
           IF ~w.ok THEN Outcome(w.fs, 1, <<"Error updating bituin.toml">>)
           ELSE GoExecute(w.fs, Join(Join(<<>>, SRC), targetFile), isPreview, rc)
    ELSE GoExecute(f, GoConfiguredMain(config.data), isPreview, rc)

(***************************************************************************)
(* Go: the command dispatcher                                              *)
(***************************************************************************)
\* NEW (a reserved word here)
NEW_CMD == <<"n","e","w">>

INIT == <<"i","n","i","t">>

RUN == <<"r","u","n">>

ADD == <<"a","d","d">>

HELP == <<"h","e","l","p">>

VERSION_CMD == <<"v","e","r","s","i","o","n">>

AUTHOR_CMD == <<"a","u","t","h","o","r">>

\* exactly one argument after the command is asked for
GoEnoughArgs_ExactlyOne(args) == Len(args) = 2

\* new, init and add go on when this many arguments are there
GoEnoughArgs(args) == ~(Len(args) < 2)

GoMain(f, args, rc) ==
    IF Len(args) = 0 THEN Outcome(f, 1, <<"usage">>)
    ELSE LET command == args[1] IN
    IF command = HELP THEN Outcome(f, 0, <<"usage">>)
    ELSE IF command = VERSION_CMD THEN Outcome(f, 0, <<"v0.1.0">>)
    ELSE IF command = AUTHOR_CMD THEN Outcome(f, 0, <<"Cyril John Magayaga">>)
    ELSE IF command = NEW_CMD
      THEN IF ~GoEnoughArgs(args)
             THEN Outcome(f, 1, <<"Error: Project name required for new command", "usage">>)
           ELSE createProject(f, args[2], TRUE)
    ELSE IF command = INIT
      THEN IF ~GoEnoughArgs(args)
             THEN Outcome(f, 1, <<"Error: Project name required for init command", "usage">>)
           ELSE createProject(f, args[2], FALSE)
    ELSE IF command = ADD
      THEN IF ~GoEnoughArgs(args)
             THEN Outcome(f, 1, <<"Error: File name required for add command", "usage">>)
           ELSE addMicroscriptFile(f, args[2])
    ELSE IF command = RUN THEN runProject(f, args, rc)
    ELSE Outcome(f, 1, <<"Unknown command", "usage">>)

(***************************************************************************)
(* JavaScript                                                              *)
(***************************************************************************)
\* fs.copyFileSync
CopyFile(f, from, to) ==
    IF ~IsFile(f, from) THEN [ok |-> FALSE, fs |-> f]
    ELSE IF from = to THEN [ok |-> TRUE, fs |-> f]
    ELSE WriteFile(f, to, f[from].data)

JsCreateDirectoryStructure(f, projectPath) ==
    LET d1 == IF JsExistsSync(f, projectPath) THEN [ok |-> TRUE, fs |-> f]
              ELSE MkdirAll(f, projectPath)
        s  == Join(projectPath, SRC)
    IN IF ~d1.ok THEN d1
       ELSE IF JsExistsSync(d1.fs, s) THEN d1
       ELSE MkdirAll(d1.fs, s)

\* the pre-check of new
JsTargetTaken(f, projectPath) == JsExistsSync(f, projectPath)

JsCreateProject(f, projectName, isNew) ==
    LET projectPath       == IF isNew THEN Join(<<>>, projectName) ELSE <<>>
        microscriptSource == Join(<<>>, MICROSCRIPT_EXE)
    IN
    IF isNew /\ JsTargetTaken(f, projectPath)
      THEN Outcome(f, 1, <<"Error: Directory already exists">>)
    ELSE LET d == JsCreateDirectoryStructure(f, projectPath) IN
    IF ~d.ok THEN Outcome(d.fs, 1, <<"Error creating project">>)
    ELSE LET m == createMainMicroscript(d.fs, projectPath) IN
    IF ~m.ok THEN Outcome(m.fs, 1, <<"Error creating project">>)
    ELSE LET c == createBituinConfig(m.fs, projectPath, projectName) IN
    IF ~c.ok THEN Outcome(c.fs, 1, <<"Error creating project">>)
    ELSE LET x == IF JsExistsSync(c.fs, microscriptSource)
                    THEN CopyFile(c.fs, microscriptSource,
                                  Join(projectPath, MICROSCRIPT_EXE))
                  ELSE [ok |-> TRUE, fs |-> c.fs] IN
    IF ~x.ok THEN Outcome(x.fs, 1, <<"Error creating project">>)
    ELSE Outcome(x.fs, 0, <<"created successfully">>)

JsAddMicroscriptFile(f, filename) ==
    LET srcDir == Join(<<>>, SRC) IN
    IF ~JsExistsSync(f, Join(<<>>, BITUIN_TOML))
      THEN Outcome(f, 1, <<"Error: Not in a Bituin project directory">>)
    ELSE LET d == IF JsExistsSync(f, srcDir) THEN [ok |-> TRUE, fs |-> f]
                  ELSE MkdirAll(f, srcDir) IN
    IF ~d.ok THEN Outcome(d.fs, 1, <<"Error creating MicroScript file">>)
    ELSE LET w == WriteFile(d.fs, Join(srcDir, filename), ADD_TEMPLATE) IN
    IF ~w.ok THEN Outcome(w.fs, 1, <<"Error creating MicroScript file">>)
    ELSE Outcome(w.fs, 0, <<"Create file">>)

\* what run writes to bituin.toml when a filename is given
JsWriteConfig(f, path, configContent, mainFileName) ==
    WriteFile(f, path, JsUpdatedConfig(configContent, mainFileName))

\* the status the process ends with once the exec callback has run: the
\* callback prints the error and returns
JsExitAfterExec(status) == 0

\* from the entry-file check on; f is the filesystem after the config step
JsExecute(f, mainFile, rc) ==
    LET here           == Join(<<>>, MICROSCRIPT_EXE)
        microscriptExe == IF JsExistsSync(f, here) THEN here
                          ELSE Join(Join(<<>>, DotDot), MICROSCRIPT_EXE)
        status         == IF IsFile(f, microscriptExe) THEN rc ELSE CannotExecute
        invoked        == <<microscriptExe, <<"run">>, mainFile>>
    IN
    IF ~JsExistsSync(f, mainFile)
      THEN [Outcome(f, 1, <<"Error: Main file not found">>) EXCEPT !.statted = mainFile]
    ELSE IF ~JsExistsSync(f, microscriptExe)
      THEN [Outcome(f, 1, <<"Error: interpreter not found">>)
              EXCEPT !.statted = mainFile]
    ELSE [Outcome(f, JsExitAfterExec(status),
                  IF status # 0 THEN <<"check", "Execution error">>
                  ELSE <<"check", "Success">>)
              EXCEPT !.statted = mainFile, !.execd = invoked, !.child = status]

JsRunProject(f, args, rc) ==
    LET bituinTomlPath == Join(<<>>, BITUIN_TOML)
        config         == ReadFile(f, bituinTomlPath)
    IN
    IF ~JsExistsSync(f, bituinTomlPath)
      THEN Outcome(f, 1, <<"Error: bituin.toml not found">>)
    ELSE IF ~config.ok
      THEN Outcome(f, 1, <<"Error running project">>)
    ELSE IF Len(args) > 1
      THEN LET w == JsWriteConfig(f, bituinTomlPath, config.data, args[2]) IN
           IF ~w.ok THEN Outcome(w.fs, 1, <<"Error running project">>)
           ELSE JsExecute(w.fs, Join(Join(<<>>, SRC), args[2]), rc)
    ELSE JsExecute(f, GoConfiguredMain(config.data), rc)

\* new, init and add go on when this many arguments are there
JsEnoughArgs(args) == ~(Len(args) < 2)

JsMain(f, args, rc) ==
    IF Len(args) = 0 THEN Outcome(f, 1, <<"usage">>)
    ELSE LET command == args[1] IN
    IF command = HELP THEN Outcome(f, 0, <<"usage">>)
    ELSE IF command = VERSION_CMD THEN Outcome(f, 0, <<"v0.1.0">>)
    ELSE IF command = AUTHOR_CMD THEN Outcome(f, 0, <<"Cyril John Magayaga">>)
    ELSE IF command = NEW_CMD
      THEN IF ~JsEnoughArgs(args)
             THEN Outcome(f, 1, <<"Error: Project name required for new command", "usage">>)
           ELSE JsCreateProject(f, args[2], TRUE)
    ELSE IF command = INIT
      THEN IF ~JsEnoughArgs(args)
             THEN Outcome(f, 1, <<"Error: Project name required for init command", "usage">>)
           ELSE JsCreateProject(f, args[2], FALSE)
    ELSE IF command = ADD
      THEN IF ~JsEnoughArgs(args)
             THEN Outcome(f, 1, <<"Error: File name required for add command", "usage">>)
           ELSE JsAddMicroscriptFile(f, args[2])
    ELSE IF command = RUN THEN JsRunProject(f, args, rc)
    ELSE Outcome(f, 1, <<"Unknown command", "usage">>)

(***************************************************************************)
(* Inputs                                                                  *)
(***************************************************************************)
\* the longest config text, in lines, the config functions are applied to
MaxLines == 3

\* [package]
HeaderLine == <<"[","p","a","c","k","a","g","e","]">>

\* name = "p"
NameLine == <<"n","a","m","e"," ","="," ","\"","p","\"">>

\* main_file = "src/a"
MainLine == MAIN_FILE_KEY \o <<" ","="," ","\"","s","r","c","/","a","\"">>

\* main_file="b"   (no blanks around the equals sign)
TightMainLine == MAIN_FILE_KEY \o <<"=","\"","b","\"">>

\* main_file = ""  (an empty value: the pattern wants one character at least)
EmptyMainLine == MAIN_FILE_KEY \o <<" ","="," ","\"","\"">>

ConfigLines == {HeaderLine, NameLine, MainLine, TightMainLine, EmptyMainLine}

RECURSIVE JoinLines(_)
JoinLines(ls) ==
    IF ls = <<>> THEN <<>>
    ELSE IF Len(ls) = 1 THEN ls[1]
    ELSE ls[1] \o <<"\n">> \o JoinLines(Tail(ls))

\* every config text of at most MaxLines lines
ConfigTexts ==
    {JoinLines(ls) : ls \in UNION {[1..n -> ConfigLines] : n \in 0..MaxLines}}

\* filenames given to run and add: plain ones, and ones that hold the
\* characters the replacement text and the pattern treat specially
FileNames ==
    { <<"a">>, <<"x",".","m">>, <<"$","1">>, <<"a","$","b">>, <<"$","0">>,
      <<"$","&">>, <<"$","$">>, <<"a","\"","b">> }

\* "src/" followed by the name: the relative path run <name> means to record
SrcPath(name) == SRC \o <<"/">> \o name

(***************************************************************************)
(* The config functions on their own: a config text and a filename are     *)
(* drawn, one implementation's rewrite is applied, and main_file is read   *)
(* back from the result.                                                   *)
(***************************************************************************)
NoRead == [found |-> FALSE, path |-> Idle]

CfgInit ==
    /\ cfgText \in ConfigTexts
    /\ target \in FileNames
    /\ rewritten = Idle
    /\ readBack = NoRead
    /\ stage = "input"
    /\ fs = <<>> /\ impl = "none" /\ argv = <<>> /\ exitCode = 0
    /\ stdout = <<>> /\ statted = Idle /\ execd = <<>> /\ child = NotStarted
    /\ before = <<>> /\ created = <<>> /\ steps = 0 /\ pcs = <<>>

CfgRest == UNCHANGED <<fs, impl, argv, exitCode, stdout, statted, execd, child,
                       before, created, steps, pcs, cfgText, target>>

\* main.go:165-166
GoRewrite ==
    /\ stage = "input"
    /\ rewritten' = GoUpdatedConfig(cfgText, target)
    /\ stage' = "go"
    /\ UNCHANGED readBack
    /\ CfgRest

\* bituin.js:133-136
JsRewrite ==
    /\ stage = "input"
    /\ rewritten' = JsUpdatedConfig(cfgText, target)
    /\ stage' = "js"
    /\ UNCHANGED readBack
    /\ CfgRest

\* main.go:173-174, bituin.js:140, on the text just written
ReadBack ==
    /\ stage \in {"go", "js"}
    /\ readBack' = ReadMainFile(rewritten)
    /\ stage' = IF stage = "go" THEN "goread" ELSE "jsread"
    /\ UNCHANGED rewritten
    /\ CfgRest

CfgNext == GoRewrite \/ JsRewrite \/ ReadBack

SpecCfg == CfgInit /\ [][CfgNext]_vars
(***************************************************************************)
(* The commands, one after the other, in one working directory             *)
(***************************************************************************)
\* how many commands a session runs
MaxCmds == 2

P == <<"p">>

Q == <<"q">>

\* a directory name that holds an assignment:  main_file="z
AssignName == MAIN_FILE_KEY \o <<"=","\"","z">>

ProjectNames == {P, AssignName}

NewArgs == {<<NEW_CMD>>, <<NEW_CMD, P, Q>>} \cup {<<NEW_CMD, n>> : n \in ProjectNames}

InitArgs == {<<INIT>>, <<INIT, P>>, <<INIT, P, Q>>}

AddArgs == {<<ADD>>, <<ADD, <<"a">>>>, <<ADD, <<"a">>, <<"b">>>>}

\* filenames given to run
RunNames == {<<"a">>, <<"b">>, <<"$","1">>}

RunArgs ==
    {<<RUN>>, <<RUN, PREVIEW_FLAG>>, <<RUN, PREVIEW_FLAG, <<"a">>>>,
     <<RUN, <<"a">>, PREVIEW_FLAG>>, <<RUN, <<"a">>, <<"b">>>>}
      \cup {<<RUN, n>> : n \in RunNames}

InfoArgs == {<<HELP>>, <<VERSION_CMD>>, <<AUTHOR_CMD>>}

MisuseArgs == {<<>>, <<<<"b","o","g","u","s">>>>}

\* the interpreter binaries: opaque
EXE_IMAGE == <<"MZ">>

NoFiles == [path \in {} |-> DirEntry]

\* the interpreters in the parent directory, or none
Interpreters(present) ==
    IF present
      THEN [path \in {<<DotDot, MICROSCRIPT_EXE>>, <<DotDot, MICROSCRIPT_PREVIEW_EXE>>}
              |-> FileEntry(EXE_IMAGE)]
    ELSE NoFiles

\* the config texts of the projects a session starts in: the one new writes,
\* one with no main_file assignment, one with two, one that names src/a
ProjectConfigs ==
    { getBituinToml(P),
      JoinLines(<<HeaderLine, NameLine>>),
      JoinLines(<<HeaderLine, MainLine, TightMainLine>>),
      JoinLines(<<HeaderLine, NameLine, MainLine>>) }

\* a project directory: bituin.toml, src/ and the source files named
ProjectFiles(config, sources) ==
    (<<BITUIN_TOML>> :> FileEntry(config)) @@ (<<SRC>> :> DirEntry)
      @@ [path \in {<<SRC, s>> : s \in sources} |-> FileEntry(MAIN_MICROSCRIPT)]

InitialFilesystems ==
    {Interpreters(i) : i \in BOOLEAN}
      \cup {ProjectFiles(c, s) @@ Interpreters(i) :
              c \in ProjectConfigs, s \in {{MAIN_NAME}, {MAIN_NAME, <<"a">>}},
              i \in BOOLEAN}

Init ==
    /\ fs \in InitialFilesystems
    /\ before = fs
    /\ impl = "none" /\ argv = <<>> /\ exitCode = 0 /\ stdout = <<>>
    /\ statted = Idle /\ execd = <<>> /\ child = NotStarted
    /\ created = [n \in ProjectNames |-> 0]
    /\ steps = 0 /\ pcs = <<>>
    /\ cfgText = Idle /\ target = Idle /\ rewritten = Idle
    /\ readBack = NoRead /\ stage = "off"

Implementations == {"go", "js"}

\* one invocation of the program: its main, start to exit
Invoke(i, args, rc) ==
    /\ \E r \in {IF i = "go" THEN GoMain(fs, args, rc) ELSE JsMain(fs, args, rc)} :
         /\ fs' = r.fs
         /\ exitCode' = r.exit
         /\ stdout' = r.out
         /\ statted' = r.statted
         /\ execd' = r.execd
         /\ child' = r.child
         /\ created' = IF Len(args) > 1 /\ args[1] = NEW_CMD /\ r.exit = 0
                          THEN [created EXCEPT ![args[2]] = @ + 1]
                        ELSE created
    /\ steps' = steps + 1
    /\ before' = fs
    /\ impl' = i
    /\ argv' = args
    /\ UNCHANGED <<pcs, cfgText, target, rewritten, readBack, stage>>

New ==
    /\ steps < MaxCmds
    /\ \E i \in Implementations, a \in NewArgs : Invoke(i, a, 0)

InitHere ==
    /\ steps < MaxCmds
    /\ \E i \in Implementations, a \in InitArgs : Invoke(i, a, 0)

Add ==
    /\ steps < MaxCmds
    /\ \E i \in Implementations, a \in AddArgs : Invoke(i, a, 0)

\* rc: the status the interpreter ends with, should it be started
Run ==
    /\ steps < MaxCmds
    /\ \E i \in Implementations, a \in RunArgs, rc \in {0, 1} : Invoke(i, a, rc)

Info ==
    /\ steps < MaxCmds
    /\ \E i \in Implementations, a \in InfoArgs : Invoke(i, a, 0)

Misuse ==
    /\ steps < MaxCmds
    /\ \E i \in Implementations, a \in MisuseArgs : Invoke(i, a, 0)

Next == New \/ InitHere \/ Add \/ Run \/ Info \/ Misuse

Spec == Init /\ [][Next]_vars
(***************************************************************************)
(* What the properties speak of                                            *)
(***************************************************************************)
ConfigPath == <<BITUIN_TOML>>

\* the last command was this one
Ran(command) == impl # "none" /\ Len(argv) >= 1 /\ argv[1] = command

\* the last command was `run <name>` with one filename and nothing else
RanWithTarget(name) == Ran(RUN) /\ argv = <<RUN, name>> /\ name # PREVIEW_FLAG

\* the last command was a run that names no target: no argument but the
\* preview flag for the Go program, no argument at all for the JavaScript one
RanWithoutTarget ==
    /\ Ran(RUN)
    /\ IF impl = "go" THEN GoTargetFile(argv) = <<>> ELSE Len(argv) = 1

\* the assignments  main_file = "<value>"  a text holds, each with the
\* positions it starts and stops at: the key, blanks, an equals sign, blanks, and a
\* non-empty quoted value that holds no quote
Assignments(text) ==
    {a \in UNION {
        {[start |-> i, stop |-> c, value |-> Sub(text, q + 1, c - 1)] :
            c \in {c \in (q + 2)..Len(text) :
                     /\ text[c] = "\""
                     /\ \A k \in (q + 1)..(c - 1) : text[k] # "\""}} :
        <<i, q>> \in {<<i, q>> \in (1..Len(text)) \X (1..Len(text)) :
            /\ HasAt(text, i, MAIN_FILE_KEY)
            /\ text[q] = "\""
            /\ \E e \in (i + Len(MAIN_FILE_KEY))..(q - 1) :
                 /\ text[e] = "="
                 /\ \A k \in ((i + Len(MAIN_FILE_KEY))..(q - 1)) \ {e} :
                      text[k] \in Whitespace}} : TRUE}

\* the first of them
FirstAssignment(text) ==
    CHOOSE a \in Assignments(text) : \A b \in Assignments(text) : a.start <= b.start

(***************************************************************************)
(* C1                                                                      *)
(***************************************************************************)
\* C1: in a valid project, whatever its config text, `run F` leaves the
\* config's main_file equal to src/F, whether or not the run then succeeds.
C1_RunRecordsTarget ==
    \A name \in RunNames :
        RanWithTarget(name) /\ IsFile(before, ConfigPath)
          => /\ IsFile(fs, ConfigPath)
             /\ ReadMainFile(fs[ConfigPath].data)
                  = [found |-> TRUE, path |-> SrcPath(name)]
(***************************************************************************)
(* C3                                                                      *)
(***************************************************************************)
MainPathText == SRC \o <<"/">> \o MAIN_NAME

\* C3: for any project name N with nothing at path N, `new N` exits 0 and
\* leaves N/src/main.microscript and N/bituin.toml, and the main_file read
\* from N/bituin.toml is src/main.microscript.
C3_NewMakesRunnableProject ==
    \A n \in ProjectNames :
        Ran(NEW_CMD) /\ argv = <<NEW_CMD, n>> /\ Stat(before, <<n>>) = "ENOENT"
          => /\ exitCode = 0
             /\ IsFile(fs, <<n, SRC, MAIN_NAME>>)
             /\ IsFile(fs, <<n, BITUIN_TOML>>)
             /\ ReadMainFile(fs[<<n, BITUIN_TOML>>].data)
                  = [found |-> TRUE, path |-> MainPathText]

(***************************************************************************)
(* C5                                                                      *)
(***************************************************************************)
\* C5: `add F` in a directory with no bituin.toml exits 1 with the
\* not-a-project message and changes nothing: no src, no src/F.
C5_AddOutsideProject ==
    Ran(ADD) /\ Len(argv) = 2 /\ Stat(before, ConfigPath) = "ENOENT"
      => /\ exitCode = 1
         /\ stdout = <<"Error: Not in a Bituin project directory">>
         /\ fs = before

C5_Witness ==
    /\ Ran(ADD) /\ Len(argv) = 2 /\ Stat(before, ConfigPath) = "ENOENT"
    /\ exitCode = 1
    /\ <<SRC>> \notin DOMAIN fs
    /\ <<SRC, argv[2]>> \notin DOMAIN fs

(***************************************************************************)
(* C6                                                                      *)
(***************************************************************************)
NamedCommands == {NEW_CMD, INIT, ADD}

Printed(msg) == \E k \in 1..Len(stdout) : stdout[k] = msg

UsageError == exitCode = 1 /\ Printed("usage") /\ fs = before

\* what the command's handler does from the filesystem f when it is given
\* the one name
Handled(i, command, f, name) ==
    IF i = "go"
      THEN IF command = ADD THEN addMicroscriptFile(f, name)
           ELSE createProject(f, name, command = NEW_CMD)
    ELSE IF command = ADD THEN JsAddMicroscriptFile(f, name)
         ELSE JsCreateProject(f, name, command = NEW_CMD)

\* C6 as stated: new, init and add are accepted only with exactly one
\* argument after the command; with none or with two or more they fail with
\* a usage error, exit 1, and change nothing.
C6_ExactlyOneArgument ==
    \A c \in NamedCommands :
        Ran(c) /\ Len(argv) # 2 => UsageError

\* C6 as amended: with no argument after the command they fail with a usage
\* error, exit 1, and change nothing; with one or more they are accepted,
\* the first is the name and the others are ignored.
C6_AtLeastOneArgument ==
    \A c \in NamedCommands :
        Ran(c) =>
          /\ Len(argv) = 1 => UsageError
          /\ Len(argv) >= 2 =>
               LET h == Handled(impl, c, before, argv[2]) IN
               /\ ~Printed("usage")
               /\ fs = h.fs /\ exitCode = h.exit /\ stdout = h.out

C6_Witness ==
    /\ Ran(NEW_CMD) /\ Len(argv) = 3 /\ exitCode = 0
    /\ <<argv[2]>> \in DOMAIN fs /\ <<argv[2]>> \notin DOMAIN before
    /\ <<argv[3]>> \notin DOMAIN fs

(***************************************************************************)
(* C7                                                                      *)
(***************************************************************************)
\* C7: run exits 0 exactly when the marker exists, the config is readable,
\* the resolved entry file exists, the interpreter is found and it ends
\* with status zero; in every other case run exits 1.
C7_RunExitStatus ==
    Ran(RUN) =>
      exitCode = IF /\ Stat(before, ConfigPath) = "ok"
                    /\ IsFile(before, ConfigPath)
                    /\ statted # Idle /\ Stat(fs, statted) = "ok"
                    /\ execd # <<>> /\ Stat(fs, execd[1]) = "ok"
                    /\ child = 0
                 THEN 0 ELSE 1

(***************************************************************************)
(* C8                                                                      *)
(***************************************************************************)
\* the entry path a config text stands for
EntryOf(text) ==
    IF Assignments(text) # {} THEN Join(<<>>, FirstAssignment(text).value)
    ELSE <<SRC, MAIN_NAME>>

\* C8: run with no target resolves the entry path from the config: the
\* value of its main_file assignment (the first one) under the working
\* directory, src/main.microscript when it holds none; the existence check
\* and the interpreter invocation use that path.
C8_RunResolvesFromConfig ==
    RanWithoutTarget /\ IsFile(before, ConfigPath)
      => /\ statted = EntryOf(before[ConfigPath].data)
         /\ execd # <<>> => execd = <<execd[1], <<"run">>, EntryOf(before[ConfigPath].data)>>

C8_Witness ==
    /\ RanWithoutTarget /\ IsFile(before, ConfigPath)
    /\ Assignments(before[ConfigPath].data) = {}
    /\ statted = <<SRC, MAIN_NAME>>
    /\ execd # <<>> /\ execd[3] = <<SRC, MAIN_NAME>>
(***************************************************************************)
(* new again and again, with the user changing files in between            *)
(***************************************************************************)
\* how many commands and edits such a session holds
MaxNewSteps == 3

\* what the user writes into a file
USER_TEXT == <<"edited by the user">>

\* an empty working directory, or one that holds an interpreter (which the
\* JavaScript program copies into a new project)
NewInit ==
    /\ fs \in {NoFiles, (<<MICROSCRIPT_EXE>> :> FileEntry(EXE_IMAGE))}
    /\ before = fs
    /\ impl = "none" /\ argv = <<>> /\ exitCode = 0 /\ stdout = <<>>
    /\ statted = Idle /\ execd = <<>> /\ child = NotStarted
    /\ created = [n \in ProjectNames |-> 0]
    /\ steps = 0 /\ pcs = <<>>
    /\ cfgText = Idle /\ target = Idle /\ rewritten = Idle
    /\ readBack = NoRead /\ stage = "off"

NewProject ==
    /\ steps < MaxNewSteps
    /\ \E i \in Implementations, a \in NewArgs : Invoke(i, a, 0)

\* the user overwrites or removes a file: no command of the program
UserEdit ==
    /\ steps < MaxNewSteps
    /\ \E path \in DOMAIN fs :
         /\ IsFile(fs, path)
         /\ \/ fs' = [fs EXCEPT ![path] = FileEntry(USER_TEXT)]
            \/ fs' = [q \in (DOMAIN fs) \ {path} |-> fs[q]]
    /\ steps' = steps + 1
    /\ before' = fs
    /\ impl' = "none" /\ argv' = <<>> /\ exitCode' = 0 /\ stdout' = <<>>
    /\ statted' = Idle /\ execd' = <<>> /\ child' = NotStarted
    /\ UNCHANGED <<created, pcs, cfgText, target, rewritten, readBack, stage>>

NewNext == NewProject \/ UserEdit

SpecNew == NewInit /\ [][NewNext]_vars

(***************************************************************************)
(* C4                                                                      *)
(***************************************************************************)
\* C4: once `new N` has succeeded, another `new N` from the same directory
\* fails with AlreadyExists, exit 1, and changes nothing, also when files
\* under N were changed in between: no name is created twice, and a `new N`
\* that fails after one that succeeded leaves the filesystem as it found it.
C4_SecondNewRefused ==
    \A n \in ProjectNames :
        /\ created[n] <= 1
        /\ Ran(NEW_CMD) /\ Len(argv) >= 2 /\ argv[2] = n
             /\ created[n] = 1 /\ <<n>> \in DOMAIN before
             => /\ exitCode = 1
                /\ stdout = <<"Error: Directory already exists">>
                /\ fs = before

\* the second `new p` after the user has edited p/bituin.toml
C4_Witness ==
    /\ Ran(NEW_CMD) /\ argv = <<NEW_CMD, P>> /\ created[P] = 1
    /\ exitCode = 1
    /\ IsFile(fs, <<P, BITUIN_TOML>>)
    /\ fs[<<P, BITUIN_TOML>>].data = USER_TEXT

(***************************************************************************)
(* Two `new` at once (Go)                                                  *)
(***************************************************************************)
\* how many processes race
NumProcs == 2

Procs == 1..NumProcs

RaceNames == {P, Q}

RaceInit ==
    /\ fs \in {NoFiles, (<<Q>> :> DirEntry)}
    /\ pcs \in [Procs -> {[pc |-> "check", name |-> n, passed |-> FALSE, exit |-> NotStarted]
                            : n \in RaceNames}]
    /\ before = fs
    /\ impl = "none" /\ argv = <<>> /\ exitCode = 0 /\ stdout = <<>>
    /\ statted = Idle /\ execd = <<>> /\ child = NotStarted
    /\ created = [n \in ProjectNames |-> 0]
    /\ steps = 0
    /\ cfgText = Idle /\ target = Idle /\ rewritten = Idle
    /\ readBack = NoRead /\ stage = "off"

RaceRest == UNCHANGED <<impl, argv, exitCode, stdout, statted, execd, child, before,
                        created, steps, cfgText, target, rewritten, readBack, stage>>

ProjectPathOf(p) == Join(<<>>, pcs[p].name)

\* a step of process p that a system call decides: on success go on at
\* position next, on failure print the error and exit 1
RaceStep(p, res, next) ==
    /\ fs' = res.fs
    /\ pcs' = IF res.ok
                THEN [pcs EXCEPT ![p].pc = next,
                                 ![p].exit = IF next = "done" THEN 0 ELSE @]
              ELSE [pcs EXCEPT ![p].pc = "done", ![p].exit = 1]
    /\ RaceRest

\* main.go:248-253
RaceCheck(p) ==
    /\ pcs[p].pc = "check"
    /\ pcs' = IF GoTargetTaken(fs, ProjectPathOf(p))
                THEN [pcs EXCEPT ![p].pc = "done", ![p].exit = 1]
              ELSE [pcs EXCEPT ![p].pc = "mkdir", ![p].passed = TRUE]
    /\ UNCHANGED fs
    /\ RaceRest

\* main.go:67-68, the project directory
RaceMkdir(p) ==
    /\ pcs[p].pc = "mkdir"
    /\ RaceStep(p, MkdirAll(fs, ProjectPathOf(p)), "mkdirSrc")

\* main.go:67-68, its src directory
RaceMkdirSrc(p) ==
    /\ pcs[p].pc = "mkdirSrc"
    /\ RaceStep(p, MkdirAll(fs, Join(ProjectPathOf(p), SRC)), "writeMain")

\* main.go:260
RaceWriteMain(p) ==
    /\ pcs[p].pc = "writeMain"
    /\ RaceStep(p, createMainMicroscript(fs, ProjectPathOf(p)), "writeConfig")

\* main.go:265
RaceWriteConfig(p) ==
    /\ pcs[p].pc = "writeConfig"
    /\ RaceStep(p, createBituinConfig(fs, ProjectPathOf(p), pcs[p].name), "done")

RaceNext ==
    \E p \in Procs :
        \/ RaceCheck(p)
        \/ RaceMkdir(p)
        \/ RaceMkdirSrc(p)
        \/ RaceWriteMain(p)
        \/ RaceWriteConfig(p)

SpecRace == RaceInit /\ [][RaceNext]_vars

(***************************************************************************)
(* C10                                                                     *)
(***************************************************************************)
\* C10: the pre-check of new and the creation after it are separate steps:
\* a `new N` that has passed the pre-check is never refused afterwards,
\* whatever another `new N` creates in between, so two of them for the same
\* absent N can both report success.
C10_PassedCheckSucceeds ==
    \A p \in Procs :
        pcs[p].pc = "done" /\ pcs[p].passed => pcs[p].exit = 0

\* both passed the pre-check for the same name before either created
\* anything, and both reported success
C10_Witness ==
    \E p, q \in Procs :
        /\ p # q
        /\ pcs[p].name = pcs[q].name
        /\ pcs[p].pc = "done" /\ pcs[q].pc = "done"
        /\ pcs[p].passed /\ pcs[q].passed
        /\ pcs[p].exit = 0 /\ pcs[q].exit = 0

(***************************************************************************)
(* C2                                                                      *)
(***************************************************************************)
\* C2: for every config text and every filename, rewriting main_file to
\* src/<filename> and reading main_file back finds it and yields exactly
\* that path.
C2_RoundTrip ==
    stage \in {"goread", "jsread"}
      => readBack = [found |-> TRUE, path |-> SrcPath(target)]

(***************************************************************************)
(* C9                                                                      *)
(***************************************************************************)
\* the text with its first assignment replaced by  main_file = "src/<name>"
\* and everything else as it was
FirstReplaced(text, name) ==
    IF Assignments(text) = {} THEN text
    ELSE LET a == FirstAssignment(text) IN
         Sub(text, 1, a.start - 1) \o ReplacementFor(name)
           \o Sub(text, a.stop + 1, Len(text))

\* C9: the rewrite replaces only the first main_file assignment, by
\* main_file = "src/F"; later assignments and all other text stay as
\* they were.
C9_FirstOccurrenceOnly ==
    stage \in {"go", "js"} => rewritten = FirstReplaced(cfgText, target)
====
